---- MODULE Spec2Model ----
(***************************************************************************)
(* ApiPortClient (src/src/apiport_mcp_server/api_client.py): the credential *)
(* state of one client object and the coroutines _request / _get_token that *)
(* share it.  Coroutines are cooperatively scheduled: a step of the model   *)
(* is the code a coroutine runs between two suspension points (an awaited   *)
(* network round trip).  Time is counted in minutes.                        *)
(***************************************************************************)
EXTENDS Integers, Sequences, FiniteSets, TLC

\* ------------------------------------------------------------------ bounds
NTasks == 2          \* dispatches (_request calls) made on the client
MaxTicks == 2        \* times the clock is seen to advance
MaxCalls == 3        \* call_tool invocations the server is sent

\* ------------------------------------------------------- program constants
BUFFER == 5          \* timedelta(minutes=5)
TTL == 60            \* timedelta(hours=1), in minutes

None == -1           \* Python None
EMPTY == 0           \* the empty string, as an access value

Tasks == 1..NTasks
\* minutes by which the clock is seen to advance between two steps
TickSteps == {BUFFER, TTL - BUFFER}

\* identity and base URL the client was constructed with
API_URL == "https://api.apiport.hu"
EMAIL == "a@b.com"
PASSWORD == "secret"

\* (method, endpoint) pairs the facade methods pass to _request (lines 82,
\* 134); the dispatches call them in turn
Ops == << <<"GET", "projects/">>, <<"POST", "sprints/1/close/">> >>
OpOf(t) == Ops[((t - 1) % Len(Ops)) + 1]

NoOp == <<"", "">>
NoCred == <<None, None, None>>
NotSent == [waited |-> None, bearer |-> ""]
NoReq == [kind |-> "none"]
NoResp == [kind |-> "none", status |-> None, is_json |-> FALSE,
           body |-> [detail |-> ""]]
NoErr == [type |-> "none", status |-> None, url |-> <<>>,
          body |-> [detail |-> ""]]
\* raised into the coroutine at the await it is suspended in
CancelledError == [type |-> "CancelledError", status |-> None, url |-> <<>>,
                   body |-> [detail |-> ""]]

NoOutcome == [how |-> "none", at |-> "idle", err |-> NoErr, response |-> NoResp,
              nlogin |-> 0, ndomain |-> 0]

\* server.py: no call_tool invocation is being handled; none has ended yet
NoCall == [pc |-> "idle", name |-> "", arguments |-> {}]
NoText == [prefix |-> "", msg |-> <<>>]
NoResult == [how |-> "none", text |-> NoText, err |-> NoErr]

VARIABLES
    now,                \* datetime.now()
    ticks,              \* advances of the clock so far
    access_token,       \* self.access_token
    refresh_token,      \* self.refresh_token
    token_expires_at,   \* self.token_expires_at
    pc,                 \* where each dispatch is
    op,                 \* its (method, endpoint)
    token,              \* _request's local `token`
    request,            \* the HTTP request it has in flight
    login_response,     \* _get_token's local `response`
    outcome,            \* how the dispatch that ended last ended: what _request
                        \* returned or raised and at which await, and the
                        \* requests it had sent
    stored_at,          \* history: instant access_token was assigned
    start_cred,         \* history: the credential state _get_token found
    acquired_at,        \* history: instant _get_token handed `token` out
    sent,               \* history: when the domain request went out, the
                        \* minutes since `token` was handed out (those past
                        \* BUFFER counted as one) and the state of its expiry
    held_expiry,        \* history: stored_at + TTL of the `token` handed out
    nlogin,             \* history: login requests sent by each dispatch
    ndomain,            \* history: domain requests sent by each dispatch
    env_email,          \* os.getenv("APIPORT_EMAIL") is a non-empty string
    env_password,       \* os.getenv("APIPORT_PASSWORD") is a non-empty string
    client,             \* server.py _client
    server,             \* where main() is
    call,               \* the call_tool invocation being handled
    result,             \* what the call_tool invocation handled last gave
    ncalls              \* call_tool invocations handled so far

cred == <<access_token, refresh_token, token_expires_at>>
locals == <<pc, op, token, request, login_response>>
hist == <<stored_at, start_cred, acquired_at, held_expiry, sent, nlogin,
          ndomain>>
cli == <<now, ticks, cred, locals, outcome, hist>>
srv == <<env_email, env_password, client, server, call, result, ncalls>>
vars == <<cli, srv>>

\* Python truthiness of an Optional[str]
Truthy(s) == s /= None /\ s /= EMPTY

\* IsFresh with the comparison turned around
IsFresh_Inverted(access, expires, t_now) ==
    /\ Truthy(access)
    /\ expires /= None
    /\ t_now > expires - BUFFER

\* IsFresh without the 5 minute buffer
IsFresh_NoBuffer(access, expires, t_now) ==
    /\ Truthy(access)
    /\ expires /= None
    /\ t_now < expires

\* IsFresh with the boundary instant counted as fresh
IsFresh_Inclusive(access, expires, t_now) ==
    /\ Truthy(access)
    /\ expires /= None
    /\ t_now <= expires - BUFFER

\* lines 36-38: the held credential is still valid, with the 5 minute buffer
IsFresh(access, expires, t_now) ==
    /\ Truthy(access)
    /\ expires /= None
    /\ t_now < expires - BUFFER

\* lines 43-46: the login request
LoginRequest ==
    [kind |-> "login", method |-> "POST",
     url |-> <<API_URL, "/api/accounts/token/">>,
     json |-> [email |-> EMAIL, password |-> PASSWORD],
     auth |-> None]

\* DomainRequest, reading the bearer from the client instead of the local
DomainRequest_SharedToken(o, tok) ==
    [kind |-> "domain", method |-> o[1],
     url |-> <<API_URL, "/api/tracker/", o[2]>>,
     json |-> None,
     auth |-> access_token]

\* DomainRequest, with the refresh value of the client as the bearer
DomainRequest_RefreshAsBearer(o, tok) ==
    [kind |-> "domain", method |-> o[1],
     url |-> <<API_URL, "/api/tracker/", o[2]>>,
     json |-> None,
     auth |-> refresh_token]

\* DomainRequest, with the endpoint put straight after the base URL
DomainRequest_NoPrefix(o, tok) ==
    [kind |-> "domain", method |-> o[1],
     url |-> <<API_URL, "/", o[2]>>,
     json |-> None,
     auth |-> tok]

\* lines 69-75: the domain request
DomainRequest(o, tok) ==
    [kind |-> "domain", method |-> o[1],
     url |-> <<API_URL, "/api/tracker/", o[2]>>,
     json |-> None,
     auth |-> tok]

\* dict.get(key) on a JSON object
DictGet(d, k) == IF k \in DOMAIN d THEN d[k] ELSE None

\* NewCred with the buffer taken for the validity window
NewCred_WrongWindow(data, t_now) ==
    <<data["access"], DictGet(data, "refresh"), t_now + BUFFER>>

\* NewCred, keeping the credential another login stored in the meantime
NewCred_KeepFirst(data, t_now) ==
    IF access_token \notin {None, EMPTY}
    THEN <<access_token, refresh_token, token_expires_at>>
    ELSE <<data["access"], DictGet(data, "refresh"), t_now + TTL>>

\* lines 50-53: the credential state a successful login response leaves
NewCred(data, t_now) ==
    <<data["access"], DictGet(data, "refresh"), t_now + TTL>>

\* the client object as __init__ leaves it, with no dispatch made on it
NewClient ==
    /\ now = 0
    /\ ticks = 0
    /\ access_token = None
    /\ refresh_token = None
    /\ token_expires_at = None
    /\ pc = [t \in Tasks |-> "idle"]
    /\ op = [t \in Tasks |-> NoOp]
    /\ token = [t \in Tasks |-> None]
    /\ request = [t \in Tasks |-> NoReq]
    /\ login_response = [t \in Tasks |-> NoResp]
    /\ outcome = NoOutcome
    /\ stored_at = None
    /\ start_cred = [t \in Tasks |-> NoCred]
    /\ acquired_at = [t \in Tasks |-> None]
    /\ sent = [t \in Tasks |-> NotSent]
    /\ held_expiry = [t \in Tasks |-> None]
    /\ nlogin = [t \in Tasks |-> 0]
    /\ ndomain = [t \in Tasks |-> 0]

\* a client constructed with both variables set, in a serving process
Init ==
    /\ NewClient
    /\ env_email = TRUE
    /\ env_password = TRUE
    /\ client = "ApiPortClient"
    /\ server = "serving"
    /\ call = NoCall
    /\ result = NoResult
    /\ ncalls = 0

\* ------------------------------------------------------------ the far end
\* What the network can hand back for a request: an HTTP response, or no
\* response at all (DNS, connection refused, timeout).
Http(status, is_json, body) ==
    [kind |-> "http", status |-> status, is_json |-> is_json, body |-> body]
TransportFailure == [kind |-> "transport", status |-> None, is_json |-> FALSE,
                     body |-> [detail |-> "unreachable"]]

\* answers to the k-th login request: every login the server accepts mints
\* a non-empty access value of its own, with or without a refresh value
LoginAnswers(k) ==
    { Http(200, TRUE, [access |-> k, refresh |-> 100 + k]),
      Http(200, TRUE, [access |-> k]),
      Http(200, TRUE, [refresh |-> 100 + k]),
      Http(401, TRUE, [detail |-> "Unauthorized"]),
      TransportFailure }

\* answers to a domain request
DomainAnswers ==
    { Http(200, TRUE, [projects |-> "one"]),
      Http(204, FALSE, [detail |-> ""]),
      Http(301, TRUE, [detail |-> "Moved"]),
      Http(401, TRUE, [detail |-> "Unauthorized"]),
      TransportFailure }

\* httpx.Response.is_success
IsSuccess(r) == 200 <= r.status /\ r.status <= 299

\* httpx.HTTPStatusError(request=, response=)
HTTPStatusError(r, url) ==
    [type |-> "HTTPStatusError", status |-> r.status, url |-> url, body |-> r.body]
\* httpx.TransportError(request=): no response came
TransportError(url) ==
    [type |-> "TransportError", status |-> None, url |-> url,
     body |-> [detail |-> ""]]
\* json.JSONDecodeError(doc=)
JSONDecodeError(r) ==
    [type |-> "JSONDecodeError", status |-> None, url |-> <<>>, body |-> r.body]
\* KeyError(key)
KeyError(k) ==
    [type |-> "KeyError", status |-> None, url |-> <<>>, body |-> [key |-> k]]

\* ResponseError, with the exceptions built without the request they are about
ResponseError_NoRequest(r, url) ==
    IF r.kind = "transport" THEN TransportError(<<>>)
    ELSE IF ~IsSuccess(r) THEN HTTPStatusError(r, <<>>)
    ELSE IF ~r.is_json THEN JSONDecodeError(r)
    ELSE NoErr

\* ResponseError, with only 4xx and 5xx answers raising
ResponseError_ClientServerOnly(r, url) ==
    IF r.kind = "transport" THEN TransportError(url)
    ELSE IF r.status >= 400 THEN HTTPStatusError(r, url)
    ELSE IF ~r.is_json THEN JSONDecodeError(r)
    ELSE NoErr

\* lines 43-48 and 69-77: the exception the awaited call, raise_for_status()
\* or json() raises for answer r to the request sent to url; NoErr when none
ResponseError(r, url) ==
    IF r.kind = "transport" THEN TransportError(url)
    ELSE IF ~IsSuccess(r) THEN HTTPStatusError(r, url)
    ELSE IF ~r.is_json THEN JSONDecodeError(r)
    ELSE NoErr

\* lines 43-50: what _get_token raises for answer r; data["access"] raises
\* on a body without the field
LoginError(r, url) ==
    IF ResponseError(r, url) /= NoErr THEN ResponseError(r, url)
    ELSE IF "access" \notin DOMAIN r.body THEN KeyError("access")
    ELSE NoErr

\* ------------------------------------------------------------- the actions
\* Dispatches are numbered in the order they are started.
CanStart(t) ==
    /\ pc[t] = "idle"
    /\ \A u \in Tasks : u < t => pc[u] /= "idle"

\* the dispatch ends: _request returns r.json() or raises e; the frames of
\* _request and _get_token, and the request still in flight, are gone
Unwind(t, how, e, r) ==
    /\ outcome' = [how |-> how, at |-> pc[t], err |-> e, response |-> r,
                   nlogin |-> nlogin[t], ndomain |-> ndomain[t]]
    /\ pc' = [pc EXCEPT ![t] = "ended"]
    /\ op' = [op EXCEPT ![t] = NoOp]
    /\ token' = [token EXCEPT ![t] = None]
    /\ request' = [request EXCEPT ![t] = NoReq]
    /\ login_response' = [login_response EXCEPT ![t] = NoResp]
    /\ start_cred' = [start_cred EXCEPT ![t] = NoCred]
    /\ acquired_at' = [acquired_at EXCEPT ![t] = None]
    /\ sent' = [sent EXCEPT ![t] = NotSent]
    /\ held_expiry' = [held_expiry EXCEPT ![t] = None]
    /\ nlogin' = [nlogin EXCEPT ![t] = 0]
    /\ ndomain' = [ndomain EXCEPT ![t] = 0]

\* lines 66, 36-39: _request calls _get_token, which finds the held
\* credential fresh and returns it
Reuse(t) ==
    /\ CanStart(t)
    /\ IsFresh(access_token, token_expires_at, now)
    /\ op' = [op EXCEPT ![t] = OpOf(t)]
    /\ token' = [token EXCEPT ![t] = access_token]
    /\ acquired_at' = [acquired_at EXCEPT ![t] = now]
    /\ held_expiry' = [held_expiry EXCEPT ![t] = stored_at + TTL]
    /\ pc' = [pc EXCEPT ![t] = "have_token"]
    /\ UNCHANGED <<now, ticks, cred, request, login_response, outcome,
                   stored_at, start_cred, sent, nlogin, ndomain, srv>>

\* lines 66, 36-46: _get_token finds no fresh credential and posts the login
\* (nothing of the client is read between the test of line 36 and the post)
BeginLogin(t) ==
    /\ CanStart(t)
    /\ ~IsFresh(access_token, token_expires_at, now)
    /\ op' = [op EXCEPT ![t] = OpOf(t)]
    /\ request' = [request EXCEPT ![t] = LoginRequest]
    /\ nlogin' = [nlogin EXCEPT ![t] = @ + 1]
    /\ start_cred' = [start_cred EXCEPT ![t] = cred]
    /\ pc' = [pc EXCEPT ![t] = "login_wait"]
    /\ UNCHANGED <<now, ticks, cred, token, login_response, outcome,
                   stored_at, acquired_at, held_expiry, sent, ndomain, srv>>

\* lines 47-56: the login answer arrives and is stored
LoginOk(t) ==
    /\ pc[t] = "login_wait"
    /\ \E r \in LoginAnswers(t) :
        /\ LoginError(r, request[t].url) = NoErr
        /\ login_response' = [login_response EXCEPT ![t] = r]
        /\ access_token' = NewCred(r.body, now)[1]
        /\ refresh_token' = NewCred(r.body, now)[2]
        /\ token_expires_at' = NewCred(r.body, now)[3]
    /\ stored_at' = now
    /\ start_cred' = [start_cred EXCEPT ![t] = NoCred]
    /\ token' = [token EXCEPT ![t] = access_token']
    /\ acquired_at' = [acquired_at EXCEPT ![t] = now]
    /\ held_expiry' = [held_expiry EXCEPT ![t] = now + TTL]
    /\ request' = [request EXCEPT ![t] = NoReq]
    /\ pc' = [pc EXCEPT ![t] = "have_token"]
    /\ UNCHANGED <<now, ticks, op, outcome, sent, nlogin, ndomain, srv>>

\* LoginFail, with the failure dropping the credential held
LoginFail_ClearsCred(t) ==
    /\ pc[t] = "login_wait"
    /\ \E r \in LoginAnswers(t) :
        /\ LoginError(r, request[t].url) /= NoErr
        /\ Unwind(t, "raised", LoginError(r, request[t].url), r)
    /\ access_token' = None
    /\ refresh_token' = None
    /\ token_expires_at' = None
    /\ UNCHANGED <<now, ticks, stored_at, srv>>

\* lines 43-50: the login cannot complete, is refused, or lacks the field;
\* the exception leaves _get_token and _request
LoginFail(t) ==
    /\ pc[t] = "login_wait"
    /\ \E r \in LoginAnswers(t) :
        /\ LoginError(r, request[t].url) /= NoErr
        /\ Unwind(t, "raised", LoginError(r, request[t].url), r)
    /\ UNCHANGED <<now, ticks, cred, stored_at, srv>>

\* lines 68-75: the domain request goes out with the token _get_token returned
SendDomain(t) ==
    /\ pc[t] = "have_token"
    /\ request' = [request EXCEPT ![t] = DomainRequest(op[t], token[t])]
    /\ ndomain' = [ndomain EXCEPT ![t] = @ + 1]
    /\ sent' = [sent EXCEPT ![t] =
                   [waited |-> IF now - acquired_at[t] <= BUFFER
                               THEN now - acquired_at[t] ELSE BUFFER + 1,
                    bearer |-> IF now < held_expiry[t] THEN "valid"
                               ELSE IF now = held_expiry[t] THEN "expiring"
                               ELSE "expired"]]
    /\ acquired_at' = [acquired_at EXCEPT ![t] = None]
    /\ held_expiry' = [held_expiry EXCEPT ![t] = None]
    /\ pc' = [pc EXCEPT ![t] = "domain_wait"]
    /\ UNCHANGED <<now, ticks, cred, op, token, login_response, outcome,
                   stored_at, start_cred, nlogin, srv>>

\* lines 76-77: a 2xx JSON answer is returned
DomainOk(t) ==
    /\ pc[t] = "domain_wait"
    /\ \E r \in DomainAnswers :
        /\ ResponseError(r, request[t].url) = NoErr
        /\ Unwind(t, "returned", NoErr, r)
    /\ UNCHANGED <<now, ticks, cred, stored_at, srv>>

\* lines 69-77: the domain call cannot complete, or is answered with an error
DomainFail(t) ==
    /\ pc[t] = "domain_wait"
    /\ \E r \in DomainAnswers :
        /\ ResponseError(r, request[t].url) /= NoErr
        /\ Unwind(t, "raised", ResponseError(r, request[t].url), r)
    /\ UNCHANGED <<now, ticks, cred, stored_at, srv>>

\* asyncio cancels the dispatch at the await it is suspended in (lines 43, 69):
\* CancelledError unwinds both `async with` blocks and the request is dropped
Cancel(t) ==
    /\ pc[t] \in {"login_wait", "have_token", "domain_wait"}
    /\ Unwind(t, "cancelled", CancelledError, NoResp)
    /\ UNCHANGED <<now, ticks, cred, stored_at, srv>>

\* the clock advances
Tick ==
    /\ ticks < MaxTicks
    /\ ticks' = ticks + 1
    /\ \E d \in TickSteps : now' = now + d
    /\ UNCHANGED <<cred, locals, outcome, hist, srv>>

Next ==
    \/ \E t \in Tasks : Reuse(t)
    \/ \E t \in Tasks : BeginLogin(t)
    \/ \E t \in Tasks : LoginOk(t)
    \/ \E t \in Tasks : LoginFail(t)
    \/ \E t \in Tasks : SendDomain(t)
    \/ \E t \in Tasks : DomainOk(t)
    \/ \E t \in Tasks : DomainFail(t)
    \/ \E t \in Tasks : Cancel(t)
    \/ Tick

Spec == Init /\ [][Next]_vars

\* ------------------------------------------------- the server (server.py)
\* main() and call_tool, the handler of tool invocations.  What the client
\* does inside an awaited facade method is taken from the definitions above:
\* the method returns a JSON value or raises what the dispatch raised.
ToolNames == {"list_projects", "close_sprint", "no_such_tool"}
\* the names call_tool has a branch for (lines 282, 368)
KnownTools == {"list_projects", "close_sprint"}
\* the argument each branch reads (lines 283, 369); "" when it reads none
ArgOf(name) == IF name = "close_sprint" THEN "sprint_id" ELSE ""
\* the keys the `arguments` dict of an invocation holds
ArgSets == {{}, {"sprint_id"}}
\* the dispatch each facade method makes (api_client.py lines 82, 134)
ToolOp(name) == IF name = "close_sprint" THEN Ops[2] ELSE Ops[1]
\* the fields the branch formats with a subscript, in the order it
\* evaluates them (lines 290, 373-374)
Required(name) ==
    IF name = "close_sprint" THEN <<"name", "id", "status">> ELSE <<"id", "name">>

\* what the facade method hands back (api_client.py lines 83, 135): the
\* object formatted, with every field of the branch or without some
ToolData(name) ==
    IF name = "close_sprint"
    THEN { [id |-> 1, name |-> "S", status |-> "closed"], [id |-> 1] }
    ELSE { [id |-> 1, name |-> "X", status |-> "active"], [id |-> 1] }

\* api_client.py line 32
ValueError ==
    [type |-> "ValueError", status |-> None, url |-> <<>>,
     body |-> [detail |-> "APIPORT_EMAIL and APIPORT_PASSWORD must be set"]]

\* what a facade method of the client can raise into call_tool: the errors
\* of the login and of the domain call of its dispatch
ClientErrors(name) ==
    ({ LoginError(r, LoginRequest.url) : r \in LoginAnswers(1) }
     \cup { ResponseError(r, DomainRequest(ToolOp(name), 1).url) :
              r \in DomainAnswers })
    \ {NoErr}

\* str(e), piece by piece
Str(e) ==
    CASE e.type = "ValueError" -> <<e.body.detail>>
      [] e.type = "KeyError" -> <<"'", e.body.key, "'">>
      [] e.type = "HTTPStatusError" ->
            <<IF e.status >= 400 THEN "Client error" ELSE "Redirect response",
              IF e.status = 401 THEN "401 Unauthorized"
              ELSE IF e.status = 301 THEN "301 Moved Permanently"
              ELSE "other status",
              "for url">> \o e.url
      [] e.type = "TransportError" -> <<"All connection attempts failed">>
      [] e.type = "JSONDecodeError" -> <<"Expecting value">>
      [] OTHER -> <<>>

\* IsException, with only the errors of httpx caught
IsException_HttpOnly(e) == e.type \in {"HTTPStatusError", "TransportError"}

\* line 536, `except Exception`: CancelledError is a BaseException
IsException(e) == e.type /= "CancelledError"

\* lines 536-538: what call_tool gives when e is raised inside its try
Boundary(e) ==
    IF IsException(e)
    THEN [how |-> "text", text |-> [prefix |-> "Error: ", msg |-> Str(e)],
          err |-> e]
    ELSE [how |-> "propagated", text |-> NoText, err |-> e]

\* the branch's f-string: the subscripts raise KeyError on a missing field
FormatError(name, d) ==
    LET missing == {i \in DOMAIN Required(name) : Required(name)[i] \notin DOMAIN d}
    IN IF missing = {} THEN NoErr
       ELSE KeyError(Required(name)[CHOOSE i \in missing :
                                      \A j \in missing : i <= j])

\* the process is started with any of the two variables set or not
InitServer ==
    /\ NewClient
    /\ env_email \in BOOLEAN
    /\ env_password \in BOOLEAN
    /\ client = "None"
    /\ server = "starting"
    /\ call = NoCall
    /\ result = NoResult
    /\ ncalls = 0

\* lines 586-594: main() runs the stdio server; nothing on the way reads the
\* environment or makes the client
Startup ==
    /\ server = "starting"
    /\ server' = "serving"
    /\ UNCHANGED <<cli, env_email, env_password, client, call, result, ncalls>>

\* lines 27-28: get_client() has a client to return, the one made earlier or
\* one ApiPortClient() can make now (api_client.py lines 31-32)
ClientAvailable == client /= "None" \/ (env_email /\ env_password)

\* what the branch for `name` raises before its first await: get_client()
\* is evaluated first, then the subscript of `arguments`
EntryError(name, arguments) ==
    IF ~ClientAvailable THEN ValueError
    ELSE IF ArgOf(name) /= "" /\ ArgOf(name) \notin arguments
         THEN KeyError(ArgOf(name))
    ELSE NoErr

\* lines 279-283, 368-369, 532-538: an invocation arrives and runs to its
\* first await, or to its end: an unknown name, or an error raised before
\* the facade method is awaited
CallTool ==
    /\ server = "serving"
    /\ call.pc = "idle"
    /\ ncalls < MaxCalls
    /\ \E name \in ToolNames, arguments \in ArgSets :
        IF name \notin KnownTools
        THEN /\ result' = [how |-> "text",
                           text |-> [prefix |-> "Unknown tool: ", msg |-> <<name>>],
                           err |-> NoErr]
             /\ ncalls' = ncalls + 1
             /\ UNCHANGED <<client, call>>
        ELSE /\ client' = IF ClientAvailable THEN "ApiPortClient" ELSE client
             /\ IF EntryError(name, arguments) /= NoErr
                THEN /\ result' = Boundary(EntryError(name, arguments))
                     /\ ncalls' = ncalls + 1
                     /\ call' = call
                ELSE /\ call' = [pc |-> "client_call", name |-> name,
                                 arguments |-> arguments]
                     /\ UNCHANGED <<result, ncalls>>
    /\ UNCHANGED <<cli, env_email, env_password, server>>

\* the invocation ends with result r
Ends(r) ==
    /\ result' = r
    /\ call' = NoCall
    /\ ncalls' = ncalls + 1
    /\ UNCHANGED <<cli, env_email, env_password, client, server>>

\* lines 283-295, 369-376: the facade method returns and the branch formats
\* what it returned
ClientReturns ==
    /\ call.pc = "client_call"
    /\ \E d \in ToolData(call.name) :
        IF FormatError(call.name, d) = NoErr
        THEN Ends([how |-> "text",
                   text |-> [prefix |-> call.name, msg |-> <<d.name>>],
                   err |-> NoErr])
        ELSE Ends(Boundary(FormatError(call.name, d)))

\* lines 283, 369, 536-538: the facade method raises
ClientRaises ==
    /\ call.pc = "client_call"
    /\ \E e \in ClientErrors(call.name) : Ends(Boundary(e))

\* the task running call_tool is cancelled while it awaits the facade method
ToolCancelled ==
    /\ call.pc = "client_call"
    /\ Ends(Boundary(CancelledError))

NextServer ==
    \/ Startup
    \/ CallTool
    \/ ClientReturns
    \/ ClientRaises
    \/ ToolCancelled

SpecServer == InitServer /\ [][NextServer]_vars

\* ---------------------------------------------------------------- helpers
Started(t) == pc[t] = "idle" /\ pc'[t] /= "idle"
LoginsInFlight == {t \in Tasks : request[t].kind = "login"}
Held == access_token \notin {None, EMPTY} /\ token_expires_at /= None

\* ------------------------------------------------------------------ claims
\* C1: single-flight login.  Acquisitions started while no valid credential
\* is held send one login request between them, so no two login requests are
\* ever in flight together.
C1_SingleFlightLogin == Cardinality(LoginsInFlight) <= 1

\* C2: credential reuse.  An acquisition started while a credential is held
\* and the clock is strictly earlier than expiry - 5 minutes sends nothing,
\* leaves (access, refresh, expiry) as they are and returns the held access
\* credential.
C2_CredentialReuse ==
    [][\A t \in Tasks :
        (Started(t) /\ Held /\ now + BUFFER < token_expires_at)
        => /\ request'[t] = NoReq
           /\ nlogin'[t] = 0
           /\ cred' = cred
           /\ pc'[t] = "have_token"
           /\ token'[t] = access_token]_vars

\* a dispatch holds the credential it found, having sent no login
C2_Witness ==
    \E t \in Tasks :
        /\ pc[t] = "have_token"
        /\ nlogin[t] = 0
        /\ token[t] = access_token
        /\ now + BUFFER < token_expires_at

\* C3: credential refresh boundary.  An acquisition started with no
\* credential held, or with expiry <= now + 5 minutes, sends exactly one login
\* request, which carries the configured email and password and nothing
\* else; when it succeeds the credential returned and stored is the access
\* value of that login's response, and expiry is now + 1 hour.
C3_RefreshBoundary ==
    /\ [](\A t \in Tasks : nlogin[t] <= 1)
    /\ [][\A t \in Tasks :
            /\ (Started(t) /\ (~Held \/ token_expires_at <= now + BUFFER))
               => /\ request'[t].kind = "login"
                  /\ request'[t].json = [email |-> EMAIL, password |-> PASSWORD]
                  /\ request'[t].auth = None
                  /\ nlogin'[t] = 1
                  /\ cred' = cred
            /\ (pc[t] = "login_wait" /\ pc'[t] = "have_token")
               => /\ nlogin'[t] = 1
                  /\ token'[t] = login_response'[t].body["access"]
                  /\ access_token' = login_response'[t].body["access"]
                  /\ token_expires_at' = now + TTL]_vars

\* a login begun at the boundary instant, expiry = now + 5 minutes, is in flight
C3_Witness ==
    \E t \in Tasks :
        /\ pc[t] = "login_wait"
        /\ nlogin[t] = 1
        /\ ticks = 1
        /\ start_cred[t][1] \notin {None, EMPTY}
        /\ start_cred[t][3] = now + BUFFER

\* C4: failed login leaves state intact.  When a login fails, (access,
\* refresh, expiry) is what it was when the acquisition started, in every
\* interleaving with other acquisitions.
C4_FailedLoginRestoresStart ==
    [][\A t \in Tasks :
        (pc[t] = "login_wait" /\ pc'[t] = "ended" /\ outcome'.how = "raised")
        => cred' = start_cred[t]]_vars

\* C5: credential-state invariant.  A non-empty access credential always comes
\* with an expiry, which is the instant that access credential was stored
\* plus one hour.
C5_CredentialStateInvariant ==
    access_token \notin {None, EMPTY}
    => /\ token_expires_at /= None
       /\ token_expires_at = stored_at + TTL

\* the second dispatch's login has stored its credential, after the clock
\* advanced
C5_Witness ==
    /\ access_token = 2
    /\ stored_at > 0
    /\ token_expires_at = stored_at + TTL

\* C6: valid at send time.  Every domain request goes out with an access
\* credential whose expiry, store instant + 1 hour, has not passed, however
\* far the clock advanced since the credential was acquired.
C6_ValidAtSendTime ==
    \A t \in Tasks : pc[t] = "domain_wait" => sent[t].bearer /= "expired"

\* C6 amended: the same, for requests sent at most 5 minutes after
\* _get_token returned the credential; and the credential _get_token returns
\* has more than 5 minutes left when reused, one hour when just stored.
C6_ValidWithinBuffer ==
    /\ \A t \in Tasks :
        (pc[t] = "domain_wait" /\ sent[t].waited <= BUFFER)
        => sent[t].bearer = "valid"
    /\ \A t \in Tasks :
        pc[t] = "have_token" => acquired_at[t] + BUFFER < held_expiry[t]

\* a request went out 5 minutes after a held credential was reused
C6_Witness ==
    \E t \in Tasks :
        /\ pc[t] = "domain_wait"
        /\ nlogin[t] = 0
        /\ sent[t] = [waited |-> BUFFER, bearer |-> "valid"]

\* C7: cancellation safety.  Cancelling a dispatch whose login is in flight
\* leaves (access, refresh, expiry) as they are and leaves the login request
\* in flight, to complete and store its credential.
C7_CancelledLoginCompletes ==
    [][\A t \in Tasks :
        (pc[t] = "login_wait" /\ pc'[t] = "ended" /\ outcome'.how = "cancelled")
        => /\ cred' = cred
           /\ request'[t].kind = "login"]_vars

\* the errors a failing domain call can raise
DomainFailures ==
    { ResponseError(r, DomainRequest(o, k).url) :
        r \in DomainAnswers, o \in {Ops[i] : i \in DOMAIN Ops}, k \in Tasks }
    \ {NoErr}

C9_DomainErrorClassification ==
    /\ [](outcome.at = "domain_wait" =>
            /\ (outcome.response.kind = "http" /\ ~IsSuccess(outcome.response))
               => /\ outcome.how = "raised"
                  /\ outcome.err.type = "HTTPStatusError"
                  /\ outcome.err.status = outcome.response.status
                  /\ outcome.err.body = outcome.response.body
                  /\ outcome.ndomain = 1
            /\ outcome.response.kind = "transport"
               => /\ outcome.how = "raised"
                  /\ outcome.err.type = "TransportError"
                  /\ outcome.ndomain = 1)
    /\ [][\A t \in Tasks :
            (pc[t] = "domain_wait" /\ pc'[t] = "ended") => cred' = cred]_vars

\* a domain call answered with a redirect ended the dispatch
C9_Witness ==
    /\ outcome.at = "domain_wait"
    /\ outcome.how = "raised"
    /\ outcome.err.status = 301
    /\ outcome.ndomain = 1

\* C10: end-to-end ordering.  The first dispatch on the new client sends one
\* login request, receives its answer, and only then sends one domain
\* request, whose bearer is the access value of that answer; no dispatch
\* sends more than one domain request, and one that returns has sent one.
C10_EndToEndOrdering ==
    /\ [](/\ pc[1] \in {"login_wait", "have_token", "domain_wait"} => nlogin[1] = 1
          /\ pc[1] \in {"idle", "login_wait", "have_token"} => ndomain[1] = 0
          /\ pc[1] = "domain_wait"
             => /\ ndomain[1] = 1
                /\ login_response[1].kind = "http"
                /\ request[1].kind = "domain"
                /\ request[1].auth = login_response[1].body["access"]
          /\ \A t \in Tasks : ndomain[t] <= 1
          /\ outcome.how = "returned" => outcome.ndomain = 1)
    /\ [][(pc[1] /= "domain_wait" /\ pc'[1] = "domain_wait")
           => /\ request[1] = NoReq
              /\ login_response[1].kind = "http"
              /\ IsSuccess(login_response[1])]_vars

\* the first dispatch's domain request is out with its own login's access
\* value, though a second login has replaced the stored credential
C10_Witness ==
    /\ pc[1] = "domain_wait"
    /\ request[1].auth = 1
    /\ access_token = 2

\* C11: endpoint composition.  Every request dispatch sends goes to
\* <base_url>/api/tracker/<endpoint_suffix> with the acquired credential as
\* its bearer; the only other request is the login, which goes to
\* <base_url>/api/accounts/token/ and carries no bearer.
C11_EndpointComposition ==
    \A t \in Tasks :
        /\ request[t].kind \in {"none", "login", "domain"}
        /\ pc[t] = "login_wait" <=> request[t].kind = "login"
        /\ pc[t] = "domain_wait" <=> request[t].kind = "domain"
        /\ request[t].kind = "domain"
           => /\ request[t].url = <<API_URL, "/api/tracker/", op[t][2]>>
              /\ request[t].method = op[t][1]
              /\ op[t] = OpOf(t)
              /\ request[t].auth = token[t]
              /\ request[t].auth /= None
        /\ request[t].kind = "login"
           => /\ request[t].url = <<API_URL, "/api/accounts/token/">>
              /\ request[t].method = "POST"
              /\ request[t].auth = None

\* a login and a domain request, to sprints/1/close/, are in flight together
C11_Witness ==
    /\ request[1].kind = "login"
    /\ request[2].kind = "domain"
    /\ request[2].url = <<API_URL, "/api/tracker/", "sprints/1/close/">>
    /\ request[2].auth = 2

\* C12: missing identity is fatal and unrecoverable.  When the email or the
\* password is missing at process start, the process never gets to serve
\* tool invocations: it handles none, and no client is ever constructed.
C12_MissingIdentityFatal ==
    ~(env_email /\ env_password)
    => /\ server /= "serving"
       /\ ncalls = 0
       /\ result = NoResult
       /\ client = "None"

\* the failures the tool boundary is to turn into text: a client that cannot
\* be constructed, a failed login, a failed or unreachable domain call, a
\* field or argument that is missing
BoundaryFailures ==
    {"ValueError", "HTTPStatusError", "TransportError", "JSONDecodeError",
     "KeyError"}

\* C13: the tool boundary never propagates errors.  Whatever the tool name,
\* an invocation in which one of these failures is raised ends with a text
\* result made of "Error: " and the error's message, not with the error
\* raised out of call_tool; an unknown name ends with a text result too; and
\* after every result the server is serving and takes the next invocation.
C13_ToolBoundaryCatches ==
    /\ result.err.type \in BoundaryFailures
       => /\ result.how = "text"
          /\ result.text = [prefix |-> "Error: ", msg |-> Str(result.err)]
          /\ result.text.msg /= <<>>
    /\ result.how = "propagated" => result.err.type \notin BoundaryFailures
    /\ result.how /= "none"
       => /\ server = "serving"
          /\ (call.pc = "idle" /\ ncalls < MaxCalls) => ENABLED CallTool

\* the third invocation ended with the text for a field missing in the
\* response
C13_Witness ==
    /\ ncalls = MaxCalls
    /\ client = "ApiPortClient"
    /\ result.how = "text"
    /\ result.err = KeyError("name")
    /\ result.text = [prefix |-> "Error: ", msg |-> <<"'", "name", "'">>]

\* C14: unguarded concurrent logins converge.  A dispatch started with no
\* valid credential held sends a login of its own though another login is in
\* flight; a dispatch that logged in sends its domain request with the access
\* value of its own login's response; and the credential state changes only
\* when a login response is processed, to that response's access value with
\* expiry now + 1 hour, which is non-empty with expiry set.
C14_ConcurrentLoginsConverge ==
    /\ [](\A t \in Tasks :
            (pc[t] = "domain_wait" /\ nlogin[t] = 1)
            => /\ IsSuccess(login_response[t])
               /\ request[t].auth = login_response[t].body["access"])
    /\ [][/\ \A t \in Tasks :
               (Started(t) /\ (~Held \/ token_expires_at <= now + BUFFER))
               => /\ request'[t].kind = "login"
                  /\ LoginsInFlight' = LoginsInFlight \cup {t}
          /\ cred' /= cred
             => \E t \in Tasks :
                  /\ pc[t] = "login_wait"
                  /\ pc'[t] = "have_token"
                  /\ IsSuccess(login_response'[t])
                  /\ access_token' = login_response'[t].body["access"]
                  /\ refresh_token' = DictGet(login_response'[t].body, "refresh")
                  /\ token_expires_at' = now + TTL
                  /\ access_token' \notin {None, EMPTY}]_vars

\* both dispatches logged in and sent their domain requests, each with its
\* own access value; the first one's login response was processed last
C14_Witness ==
    /\ pc[1] = "domain_wait" /\ nlogin[1] = 1 /\ request[1].auth = 1
    /\ pc[2] = "domain_wait" /\ nlogin[2] = 1 /\ request[2].auth = 2
    /\ access_token = 1
    /\ token_expires_at = stored_at + TTL

\* C15: the bearer of every domain request in flight is the local token of
\* its dispatch, never empty or unset; a local token is only ever set to the
\* access value of the successful login response the dispatch just processed
\* or to the stored access value; and the stored access value is only ever
\* set to the access value of a successful login response being processed.
\* So every bearer is the access value of a login response this client
\* accepted, and the login that minted it has been answered.
C15_BearerIsMintedAccess ==
    /\ [](\A t \in Tasks :
            /\ request[t].kind = "domain"
               => /\ request[t].auth = token[t]
                  /\ Truthy(request[t].auth)
                  /\ request[t].auth \in Tasks
                  /\ pc[request[t].auth] \notin {"idle", "login_wait"}
            /\ token[t] /= None => Truthy(token[t])
            /\ access_token /= None => Truthy(access_token))
    /\ [][/\ \A t \in Tasks :
               (token'[t] /= token[t] /\ token'[t] /= None)
               => \/ /\ pc[t] = "login_wait"
                     /\ login_response'[t] \in LoginAnswers(t)
                     /\ IsSuccess(login_response'[t])
                     /\ token'[t] = login_response'[t].body["access"]
                  \/ /\ pc[t] = "idle"
                     /\ token'[t] = access_token
                     /\ access_token' = access_token
          /\ access_token' /= access_token
             => \E t \in Tasks :
                  /\ pc[t] = "login_wait"
                  /\ login_response'[t] \in LoginAnswers(t)
                  /\ IsSuccess(login_response'[t])
                  /\ access_token' = login_response'[t].body["access"]]_vars

\* after the clock advanced, the second dispatch sent its domain request
\* with the access value the first one's login minted, having sent no login;
\* the first one's own domain call has failed
C15_Witness ==
    /\ ticks >= 1
    /\ request[2].kind = "domain"
    /\ nlogin[2] = 0
    /\ request[2].auth = 1
    /\ pc[1] = "ended"
    /\ outcome.how = "raised"

\* C16: credential state only moves forward.  No step takes a stored access
\* credential or a stored expiry back to empty, and, the clock never going
\* back, no step lowers the stored expiry.
C16_CredentialOnlyForward ==
    [][/\ now' >= now
       /\ access_token \notin {None, EMPTY}
          => access_token' \notin {None, EMPTY}
       /\ token_expires_at /= None
          => /\ token_expires_at' /= None
             /\ token_expires_at' >= token_expires_at]_vars

\* the second dispatch's login failed while the credential of the first was
\* held, and the credential is still held
C16_Witness ==
    /\ outcome.at = "login_wait"
    /\ outcome.how = "raised"
    /\ pc[2] = "ended"
    /\ access_token = 1
    /\ token_expires_at = stored_at + TTL
====
